---- MODULE Spec2Model ----
(***************************************************************************)
(* Model of google_drive_manager/drive_api.py: the retry_on_transient      *)
(* decorator, the retry-wrapped Drive operations, upsert_file_by_path and  *)
(* sync_folder.  The program is single-threaded; pc is the position of     *)
(* the one thread of control, and the frames of the nested calls           *)
(* (sync_folder -> upsert_file_by_path -> wrapper -> fn) are the variables *)
(* s, u and r with the wrapper's locals.                                   *)
(***************************************************************************)
EXTENDS Integers, Sequences, FiniteSets, TLC

VARIABLES
    remote,     \* the Drive store: sequence of objects [id, name, parents, content]
    nextId,     \* next identity the store assigns on create
    fs,         \* local file system under local_dir: [root |-> kind, files |-> set of paths]
    pc,         \* position of the thread of control
    top,        \* the top-level call in progress: [fn |-> ..., ...]
    out,        \* outcome of the top-level call: [kind |-> "pending"|"return"|"raise", ...]
    calls,      \* Drive operations invoked since the top-level call began
    remote0,    \* the store as it was when the top-level call began
    ncalls,     \* number of top-level calls made so far
    s,          \* sync_folder frame: [todo |-> paths left to visit, p |-> current path]
    results,    \* sync_folder's local `results`
    u,          \* upsert_file_by_path frame: arguments, `name`, and who called it
    matches,    \* upsert_file_by_path's local `matches`
    r,          \* wrapper frame: [fn, args, params, caller]
    attempt,    \* wrapper local `attempt`
    backoff,    \* wrapper local `backoff` (a rational <<num, den>>)
    last_exc,   \* wrapper local `last_exc`
    fnCalls,    \* number of times the wrapper has called fn in this invocation
    reqs,       \* number of Drive requests executed in this wrapper invocation
    sleeps,     \* number of time.sleep calls in this wrapper invocation
    lastSleep,  \* the latest time.sleep of this invocation
    prev,       \* the previous top-level call: its outcome and the store it began with
    fnFails,    \* history: calls of fn that raised, in this wrapper invocation
    fnRaised,   \* history: the exception fn raised last, in this wrapper invocation
    failures    \* history: local paths whose lookup or transfer raised, in this top-level call

vars == <<remote, nextId, fs, pc, top, out, calls, remote0, ncalls, prev, s, results,
          u, matches, r, attempt, backoff, last_exc, fnCalls, reqs, sleeps, lastSleep,
          fnFails, fnRaised, failures>>

retryVars == <<attempt, backoff, last_exc, fnCalls, reqs, sleeps, lastSleep, fnFails, fnRaised>>

-----------------------------------------------------------------------------
(* Bounds of the model. *)

\* Largest max_attempts tried besides the default, for a directly wrapped function.
MaxAttemptsBound == 3
\* initial_backoff and max_backoff range over 0..MaxBackoffUnits seconds.
MaxBackoffUnits == 2
\* Top-level calls made one after the other.
MaxCalls == 2
\* Regular files in the local tree.
MaxFiles == 2

-----------------------------------------------------------------------------
(* Exact arithmetic on the non-negative floats of the backoff computation: *)
(* a number is <<numerator, denominator>> with denominator > 0.            *)

RMul(x, y) == <<x[1] * y[1], x[2] * y[2]>>
RLeq(x, y) == x[1] * y[2] <= y[1] * x[2]
RLess(x, y) == x[1] * y[2] < y[1] * x[2]
REq(x, y) == x[1] * y[2] = y[1] * x[2]
\* Python's min(x, y): y only when y < x.
RMin(x, y) == IF RLess(y, x) THEN y ELSE x

RECURSIVE RPow(_, _)
RPow(x, k) == IF k <= 0 THEN <<1, 1>> ELSE RMul(x, RPow(x, k - 1))

-----------------------------------------------------------------------------
(* retry_on_transient *)

\* The decorator's keyword defaults, used by every decorated Drive operation.
DefaultParams ==
    [max_attempts |-> 6, initial_backoff |-> <<1, 1>>, multiplier |-> <<2, 1>>,
     max_backoff |-> <<60, 1>>, jitter |-> TRUE]

\* Exceptions are records; `cause` is the <<type, msg>> of __cause__.
Exc(type, msg) == [type |-> type, msg |-> msg, fn |-> "", attempts |-> 0, cause |-> <<"None", "">>]

\* last_exc = None
NoExc == Exc("None", "")

\* What a Drive request (req.execute()) can raise.
RemoteErrors == {Exc("HttpError", "503")}

\* What an arbitrary wrapped function can raise.
FnExceptions == {Exc("HttpError", "503"), Exc("HttpError", "404"), Exc("ValueError", "")}

\* DriveAPIError raised by upload_file / update_file for a missing local path.
LocalFileNotFound == Exc("DriveAPIError", "Local file not found")

\* A retry_on_exceptions that names the HTTP errors only.
retry_on_http_only == {"HttpError"}

\* retry_on_exceptions: the default (Exception,) catches every exception type.
retry_on_exceptions == {"HttpError", "ValueError", "DriveAPIError"}

\* raise DriveAPIError(f"Function {fn.__name__} failed after {attempt} attempts") from last_exc
RetryExhausted(fn, n, last) ==
    [type |-> "DriveAPIError", msg |-> "failed after attempts", fn |-> fn,
     attempts |-> n, cause |-> <<last.type, last.msg>>]

\* repr(exc): the type and the message, not the cause.
Repr(e) == [type |-> e.type, msg |-> e.msg, fn |-> e.fn, attempts |-> e.attempts]

\* What random.uniform(0, backoff) may return, as a fraction of backoff.
JitterFractions == {<<0, 1>>, <<1, 2>>, <<1, 1>>}

\* A loop that stops one attempt early.
LoopConditionShort(a, p) == a < p.max_attempts - 1

\* A loop whose body runs at least once.
LoopConditionAtLeastOnce(a, p) == a = 0 \/ a < p.max_attempts

\* `while attempt < max_attempts`
LoopCondition(a, p) == a < p.max_attempts

\* A break that comes one failure late.
BreakConditionLate(a, p) == a > p.max_attempts

\* `if attempt >= max_attempts: break`
BreakCondition(a, p) == a >= p.max_attempts

\* sleep_time = backoff; if jitter: sleep_time = random.uniform(0, backoff)
SleepTimes(b, p) == IF p.jitter THEN {RMul(b, f) : f \in JitterFractions} ELSE {b}

\* time.sleep(min(sleep_time, max_backoff))
SleepArg(sleep_time, p) == RMin(sleep_time, p.max_backoff)

\* A backoff that grows without the cap.
NextBackoffUncapped(b, p) == RMul(b, p.multiplier)

\* backoff = min(backoff * multiplier, max_backoff)
NextBackoff(b, p) == RMin(RMul(b, p.multiplier), p.max_backoff)

NoSleep == [after |-> 0, backoff |-> <<0, 1>>, sleep_time |-> <<0, 1>>, slept |-> <<0, 1>>]

-----------------------------------------------------------------------------
(* The local tree.  A path is the sequence of its components below         *)
(* local_dir; a name is a string, compared as Python compares strings,     *)
(* by code point.                                                          *)

Names == {"a", "a.txt", "b"}

Code(n) ==
    CASE n = "a" -> <<97>>
      [] n = "a.txt" -> <<97, 46, 116, 120, 116>>
      [] n = "b" -> <<98>>

\* The files a local tree is drawn from.
LocalPaths == {<<"a", "b">>, <<"a", "a.txt">>, <<"a.txt">>, <<"b">>}

\* Path(local_path).name
BaseName(p) == p[Len(p)]

\* str.__lt__ on two strings given by their code points
RECURSIVE StrLess(_, _)
StrLess(x, y) ==
    IF y = <<>> THEN FALSE
    ELSE IF x = <<>> THEN TRUE
    ELSE IF Head(x) # Head(y) THEN Head(x) < Head(y)
    ELSE StrLess(Tail(x), Tail(y))

\* Path.__lt__: tuple comparison of the parts
RECURSIVE PathLess(_, _)
PathLess(p, q) ==
    IF q = <<>> THEN FALSE
    ELSE IF p = <<>> THEN TRUE
    ELSE IF Head(p) # Head(q) THEN StrLess(Code(Head(p)), Code(Head(q)))
    ELSE PathLess(Tail(p), Tail(q))

\* str(p) for a path below local_dir "d": the parts joined by "/"
RECURSIVE PathStr(_)
PathStr(p) == IF p = <<>> THEN <<100>> ELSE PathStr(SubSeq(p, 1, Len(p) - 1)) \o <<47>> \o Code(BaseName(p))

\* local.rglob("*"): every file and every directory below local_dir
RGlob(files) == files \cup UNION {{SubSeq(p, 1, k) : k \in 1..(Len(p) - 1)} : p \in files}

\* A sort that compares the paths as strings.
RECURSIVE SortedByString(_)
SortedByString(S) ==
    IF S = {} THEN <<>>
    ELSE LET m == CHOOSE x \in S : \A y \in S \ {x} : StrLess(PathStr(x), PathStr(y))
         IN <<m>> \o SortedByString(S \ {m})

\* sorted(...)
RECURSIVE Sorted(_)
Sorted(S) ==
    IF S = {} THEN <<>>
    ELSE LET m == CHOOSE x \in S : \A y \in S \ {x} : PathLess(x, y)
         IN <<m>> \o Sorted(S \ {m})

-----------------------------------------------------------------------------
(* The Drive store and the bodies of the wrapped operations. *)

\* pageSize of list_files
PageSize == 100

Obj(id, name, parents, content) == [id |-> id, name |-> name, parents |-> parents, content |-> content]

\* files().list(q = "name = '<name>' [and '<parent>' in parents]").execute()["files"]
Query(store, name, parent_id) ==
    LET hit(o) == o.name = name /\ (parent_id = "" \/ parent_id \in o.parents)
        found == SelectSeq(store, hit)
        page == SubSeq(found, 1, IF Len(found) < PageSize THEN Len(found) ELSE PageSize)
    IN [i \in 1..Len(page) |-> [id |-> page[i].id, name |-> page[i].name, parents |-> page[i].parents]]

HasId(store, id) == \E i \in 1..Len(store) : store[i].id = id

\* Transfers that do not look at the local file first.
FnSucceedsWithoutFile(fn, args) ==
    CASE fn = "upload_file" -> TRUE
      [] fn = "update_file" -> HasId(remote, args.file_id)
      [] OTHER -> TRUE

\* Whether this call of fn can return normally.
FnSucceeds(fn, args) ==
    CASE fn = "upload_file" -> args.path \in fs.files
      [] fn = "update_file" -> args.path \in fs.files /\ HasId(remote, args.file_id)
      [] OTHER -> TRUE

\* What this call of fn can raise.
FnErrors(fn, args) ==
    CASE fn = "fn" -> FnExceptions
      [] fn = "list_files" -> RemoteErrors
      [] OTHER -> IF args.path \in fs.files THEN RemoteErrors ELSE {LocalFileNotFound}

\* Drive requests this call of fn executes.
FnRequests(fn, args) ==
    CASE fn = "fn" -> 0
      [] fn = "list_files" -> 1
      [] OTHER -> IF args.path \in fs.files THEN 1 ELSE 0

\* A lookup answered from the store as it was when the top-level call began.
FnValueStale(fn, args) ==
    CASE fn = "fn" -> [call |-> fnCalls + 1]
      [] fn = "list_files" -> Query(remote0, args.name, args.parent_id)
      [] fn = "upload_file" ->
            [id |-> nextId, name |-> BaseName(args.path),
             parents |-> IF args.parent_id # "" THEN {args.parent_id} ELSE {}]
      [] fn = "update_file" -> [id |-> args.file_id, name |-> (CHOOSE o \in {remote[i] : i \in 1..Len(remote)} : o.id = args.file_id).name]

\* The value fn returns when it succeeds.
FnValue(fn, args) ==
    CASE fn = "fn" -> [call |-> fnCalls + 1]
      [] fn = "list_files" -> Query(remote, args.name, args.parent_id)
      [] fn = "upload_file" ->
            [id |-> nextId, name |-> BaseName(args.path),
             parents |-> IF args.parent_id # "" THEN {args.parent_id} ELSE {}]
      [] fn = "update_file" -> [id |-> args.file_id, name |-> (CHOOSE o \in {remote[i] : i \in 1..Len(remote)} : o.id = args.file_id).name]

\* An upload that does not put the new object under its parent.
FnStoreNoParents(fn, args) ==
    CASE fn = "upload_file" -> Append(remote, Obj(nextId, BaseName(args.path), {}, args.path))
      [] fn = "update_file" ->
            [i \in 1..Len(remote) |->
                IF remote[i].id = args.file_id THEN [remote[i] EXCEPT !.content = args.path] ELSE remote[i]]
      [] OTHER -> remote

\* The store after fn succeeded.
FnStore(fn, args) ==
    CASE fn = "upload_file" ->
            Append(remote, Obj(nextId, BaseName(args.path),
                               IF args.parent_id # "" THEN {args.parent_id} ELSE {}, args.path))
      [] fn = "update_file" ->
            [i \in 1..Len(remote) |->
                IF remote[i].id = args.file_id THEN [remote[i] EXCEPT !.content = args.path] ELSE remote[i]]
      [] OTHER -> remote

Args(name, parent_id, path, file_id) ==
    [name |-> name, parent_id |-> parent_id, path |-> path, file_id |-> file_id]

-----------------------------------------------------------------------------
(* Frames and the transfer of control between them. *)

NoR == [fn |-> "", args |-> Args("", "", <<>>, 0), params |-> DefaultParams, caller |-> ""]
NoU == [path |-> <<>>, name |-> "", parent_id |-> "", policy |-> "", dry_run |-> FALSE, caller |-> ""]
NoS == [todo |-> <<>>, p |-> <<>>]
Pending == [kind |-> "pending", val |-> <<>>, exc |-> NoExc]
Returned(v) == [kind |-> "return", val |-> v, exc |-> NoExc]
Raised(e) == [kind |-> "raise", val |-> <<>>, exc |-> e]

\* What is kept of a top-level call when the next one begins.
Previous ==
    [kind |-> out.kind, val |-> out.val, exc |-> out.exc, remote0 |-> remote0,
     dry_run |-> IF top.fn \in {"sync_folder", "upsert_file_by_path"} THEN top.dry_run ELSE FALSE]

\* A decorated function is called: the wrapper's locals are initialised.
EnterWrapper(log, fn, args, params, caller) ==
    /\ r' = [fn |-> fn, args |-> args, params |-> params, caller |-> caller]
    /\ attempt' = 0
    /\ backoff' = params.initial_backoff
    /\ last_exc' = NoExc
    /\ fnCalls' = 0
    /\ reqs' = 0
    /\ sleeps' = 0
    /\ lastSleep' = NoSleep
    /\ fnFails' = 0
    /\ fnRaised' = NoExc
    /\ calls' = Append(log, [fn |-> fn, args |-> args])
    /\ pc' = "retry"

\* upsert_file_by_path returns res: to the top level, or into sync_folder's
\* results.append({"path": str(p), "result": res}).
UpsertReturns(res) ==
    IF u.caller = "top"
    THEN /\ pc' = "done"
         /\ out' = Returned(res)
         /\ UNCHANGED results
    ELSE /\ pc' = "sync_loop"
         /\ results' = Append(results, [path |-> PathStr(s.p), result |-> res])
         /\ UNCHANGED out

\* A sync_folder without the try/except: the exception leaves the pass.
UpsertRaisesUncaught(exc) ==
    /\ pc' = "done"
    /\ out' = Raised(exc)
    /\ UNCHANGED results

\* upsert_file_by_path raises exc: to the top level, or into sync_folder's
\* `except Exception as exc: results.append({"path": str(p), "error": repr(exc)})`.
UpsertRaises(exc) ==
    IF u.caller = "top"
    THEN /\ pc' = "done"
         /\ out' = Raised(exc)
         /\ UNCHANGED results
    ELSE /\ pc' = "sync_loop"
         /\ results' = Append(results, [path |-> PathStr(s.p), error |-> Repr(exc)])
         /\ UNCHANGED out

\* The wrapper returns val to whoever called the decorated function.
WrapperReturns(val) ==
    CASE r.caller = "top" ->
            /\ pc' = "done"
            /\ out' = Returned(val)
            /\ UNCHANGED <<results, matches>>
      [] r.caller = "find" ->
            /\ pc' = "upsert"
            /\ matches' = val
            /\ UNCHANGED <<out, results>>
      [] r.caller = "transfer" ->
            /\ UpsertReturns(val)
            /\ UNCHANGED matches

\* An upsert_file_by_path that catches the failure and returns an error record.
WrapperRaisesSwallowed(exc) ==
    IF r.caller = "top"
    THEN /\ pc' = "done"
         /\ out' = Raised(exc)
         /\ UNCHANGED <<results, matches, failures>>
    ELSE /\ UpsertReturns([action |-> "error"])
         /\ failures' = failures \cup {u.path}
         /\ UNCHANGED matches

\* The wrapper raises exc; upsert_file_by_path catches nothing.
WrapperRaises(exc) ==
    IF r.caller = "top"
    THEN /\ pc' = "done"
         /\ out' = Raised(exc)
         /\ UNCHANGED <<results, matches, failures>>
    ELSE /\ UpsertRaises(exc)
         /\ failures' = failures \cup {u.path}
         /\ UNCHANGED matches

-----------------------------------------------------------------------------
(* retry_on_transient.wrapper, one loop iteration per step. *)

\* attempt += 1; result = fn(...); return result
WrapperCallReturns ==
    /\ pc = "retry"
    /\ LoopCondition(attempt, r.params)
    /\ FnSucceeds(r.fn, r.args)
    /\ attempt' = attempt + 1
    /\ fnCalls' = fnCalls + 1
    /\ reqs' = reqs + FnRequests(r.fn, r.args)
    /\ remote' = FnStore(r.fn, r.args)
    /\ nextId' = IF r.fn = "upload_file" THEN nextId + 1 ELSE nextId
    /\ WrapperReturns(FnValue(r.fn, r.args))
    /\ UNCHANGED <<fs, top, calls, remote0, ncalls, prev, s, u, r, backoff, last_exc, sleeps,
                   lastSleep, fnFails, fnRaised, failures>>

\* attempt += 1; fn(...) raises; except retry_on_exceptions: break, or sleep and continue
WrapperCallRaises ==
    /\ pc = "retry"
    /\ LoopCondition(attempt, r.params)
    /\ \E exc \in FnErrors(r.fn, r.args) :
        /\ attempt' = attempt + 1
        /\ fnCalls' = fnCalls + 1
        /\ reqs' = reqs + FnRequests(r.fn, r.args)
        /\ fnFails' = fnFails + 1
        /\ fnRaised' = exc
        /\ IF exc.type \in retry_on_exceptions
           THEN /\ last_exc' = exc
                /\ IF BreakCondition(attempt + 1, r.params)
                   THEN /\ pc' = "exhausted"
                        /\ UNCHANGED <<backoff, sleeps, lastSleep>>
                   ELSE /\ pc' = "retry"
                        /\ \E sleep_time \in SleepTimes(backoff, r.params) :
                              lastSleep' = [after |-> attempt + 1, backoff |-> backoff,
                                            sleep_time |-> sleep_time,
                                            slept |-> SleepArg(sleep_time, r.params)]
                        /\ sleeps' = sleeps + 1
                        /\ backoff' = NextBackoff(backoff, r.params)
                /\ UNCHANGED <<out, results, matches, failures>>
           ELSE /\ WrapperRaises(exc)
                /\ UNCHANGED <<last_exc, backoff, sleeps, lastSleep>>
    /\ UNCHANGED <<remote, nextId, fs, top, calls, remote0, ncalls, prev, s, u, r>>

\* The loop is left without a return: raise DriveAPIError(...) from last_exc
WrapperExhausted ==
    /\ \/ pc = "exhausted"
       \/ pc = "retry" /\ ~LoopCondition(attempt, r.params)
    /\ WrapperRaises(RetryExhausted(r.fn, attempt, last_exc))
    /\ UNCHANGED <<remote, nextId, fs, top, calls, remote0, ncalls, prev, s, u, r, retryVars>>

-----------------------------------------------------------------------------
(* upsert_file_by_path *)

ConflictPolicies == {"overwrite", "skip", "new"}

\* A default of 'new'.
DefaultPolicyNew == "new"

\* The conflict_policy parameter's default, which sync_folder leaves in force.
DefaultConflictPolicy == "overwrite"

Return(v) == [do |-> "return", val |-> v, file_id |-> 0]
Upload == [do |-> "upload_file", val |-> <<>>, file_id |-> 0]
Update(id) == [do |-> "update_file", val |-> <<>>, file_id |-> id]

\* A decision that forgets dry_run in the overwrite branch.
UpsertDecisionIgnoresDryRun(m, conflict_policy, dry_run, name) ==
    IF m = <<>>
    THEN IF dry_run THEN Return([action |-> "create", name |-> name]) ELSE Upload
    ELSE LET file_id == m[1].id IN
         IF conflict_policy = "skip" THEN Return([action |-> "skip", file_id |-> file_id])
         ELSE IF conflict_policy = "new"
         THEN IF dry_run THEN Return([action |-> "create_new", name |-> name]) ELSE Upload
         ELSE Update(file_id)

\* A decision that overwrites the match under policy 'new'.
UpsertDecisionNewUpdates(m, conflict_policy, dry_run, name) ==
    IF m = <<>>
    THEN IF dry_run THEN Return([action |-> "create", name |-> name]) ELSE Upload
    ELSE LET file_id == m[1].id IN
         IF conflict_policy = "skip" THEN Return([action |-> "skip", file_id |-> file_id])
         ELSE IF dry_run THEN Return([action |-> "update", file_id |-> file_id])
         ELSE Update(file_id)

\* A decision without the 'skip' branch.
UpsertDecisionNoSkip(m, conflict_policy, dry_run, name) ==
    IF m = <<>>
    THEN IF dry_run THEN Return([action |-> "create", name |-> name]) ELSE Upload
    ELSE LET file_id == m[1].id IN
         IF conflict_policy = "new"
         THEN IF dry_run THEN Return([action |-> "create_new", name |-> name]) ELSE Upload
         ELSE IF dry_run THEN Return([action |-> "update", file_id |-> file_id])
         ELSE Update(file_id)

\* A decision that takes the last match.
UpsertDecisionLastMatch(m, conflict_policy, dry_run, name) ==
    IF m = <<>>
    THEN IF dry_run THEN Return([action |-> "create", name |-> name]) ELSE Upload
    ELSE LET file_id == m[Len(m)].id IN
         IF conflict_policy = "skip" THEN Return([action |-> "skip", file_id |-> file_id])
         ELSE IF conflict_policy = "new"
         THEN IF dry_run THEN Return([action |-> "create_new", name |-> name]) ELSE Upload
         ELSE IF dry_run THEN Return([action |-> "update", file_id |-> file_id])
         ELSE Update(file_id)

\* The branch taken once `matches` is known.
UpsertDecision(m, conflict_policy, dry_run, name) ==
    IF m = <<>>
    THEN IF dry_run THEN Return([action |-> "create", name |-> name]) ELSE Upload
    ELSE LET file_id == m[1].id IN
         IF conflict_policy = "skip" THEN Return([action |-> "skip", file_id |-> file_id])
         ELSE IF conflict_policy = "new"
         THEN IF dry_run THEN Return([action |-> "create_new", name |-> name]) ELSE Upload
         ELSE IF dry_run THEN Return([action |-> "update", file_id |-> file_id])
         ELSE Update(file_id)

\* name = Path(local_path).name; matches = find_file_by_name(service, name, parent_id)
UpsertEnter(log, local_path, drive_parent_id, conflict_policy, dry_run, caller) ==
    /\ u' = [path |-> local_path, name |-> BaseName(local_path), parent_id |-> drive_parent_id,
             policy |-> conflict_policy, dry_run |-> dry_run, caller |-> caller]
    /\ matches' = <<>>
    /\ EnterWrapper(log, "list_files", Args(BaseName(local_path), drive_parent_id, <<>>, 0),
                    DefaultParams, "find")

\* From `if not matches:` to the return, or to the call of upload_file / update_file.
UpsertDecide ==
    /\ pc = "upsert"
    /\ LET d == UpsertDecision(matches, u.policy, u.dry_run, u.name) IN
         CASE d.do = "return" ->
                /\ UpsertReturns(d.val)
                /\ UNCHANGED <<r, retryVars, calls>>
           [] d.do = "upload_file" ->
                /\ EnterWrapper(calls, "upload_file", Args("", u.parent_id, u.path, 0),
                                DefaultParams, "transfer")
                /\ UNCHANGED <<out, results>>
           [] d.do = "update_file" ->
                /\ EnterWrapper(calls, "update_file", Args("", "", u.path, d.file_id),
                                DefaultParams, "transfer")
                /\ UNCHANGED <<out, results>>
    /\ UNCHANGED <<remote, nextId, fs, top, remote0, ncalls, prev, s, u, matches, failures>>

-----------------------------------------------------------------------------
(* sync_folder *)

NoFilter == [given |-> FALSE, accept |-> {}]
Filters ==
    {NoFilter,
     [given |-> TRUE, accept |-> {p \in LocalPaths : BaseName(p) = "b"}],
     [given |-> TRUE, accept |-> {}]}

Modes == {"upsert", "mirror"}
Parents == {"", "P"}

\* local.exists() / local.is_dir()
Exists(f) == f.root # "missing"
IsDir(f) == f.root = "dir"

\* A check of existence alone.
LocalDirMissingExistsOnly(f) == ~Exists(f)

\* `if not local.exists() or not local.is_dir()`
LocalDirMissing(f) == ~Exists(f) \/ ~IsDir(f)

\* A filter that excludes nothing.
ExcludedNever(filters, p) == FALSE

\* `filters and not filters(p)`
Excluded(filters, p) == filters.given /\ p \notin filters.accept

\* A mode test that takes every mode for 'upsert'.
ModeIsAnything(mode) == TRUE

\* `if mode == "upsert"`
ModeIsUpsert(mode) == mode = "upsert"

\* The call, up to the first iteration of the loop.
SyncBegin(drive_parent_id, mode, filters, dry_run) ==
    /\ top' = [fn |-> "sync_folder", drive_parent_id |-> drive_parent_id, mode |-> mode,
               filters |-> filters, dry_run |-> dry_run]
    /\ calls' = <<>>
    /\ failures' = {}
    /\ remote0' = remote
    /\ ncalls' = ncalls + 1
    /\ prev' = Previous
    /\ IF LocalDirMissing(fs)
       THEN /\ out' = Raised(Exc("DriveAPIError", "Local dir not found"))
            /\ pc' = "done"
            /\ UNCHANGED <<s, results>>
       ELSE /\ out' = Pending
            /\ s' = [todo |-> Sorted(RGlob(fs.files)), p |-> <<>>]
            /\ results' = <<>>
            /\ pc' = "sync_loop"
    /\ UNCHANGED <<remote, nextId, fs, u, matches, r, retryVars>>

CallSyncFolder(drive_parent_id, mode, filters, dry_run) ==
    /\ pc = "idle"
    /\ SyncBegin(drive_parent_id, mode, filters, dry_run)

\* An entry of the returned list that records a failure
IsError(e) == "error" \in DOMAIN e

\* After a dry run that reported no error, the caller runs the same sync for real.
SyncForReal ==
    /\ pc = "done"
    /\ top.fn = "sync_folder"
    /\ top.dry_run
    /\ out.kind = "return"
    /\ \A i \in 1..Len(out.val) : ~IsError(out.val[i])
    /\ SyncBegin(top.drive_parent_id, top.mode, top.filters, FALSE)

\* After a real pass that reported no error, the caller runs the same sync once more.
SyncAgain ==
    /\ pc = "done"
    /\ top.fn = "sync_folder"
    /\ ~top.dry_run
    /\ ncalls < MaxCalls
    /\ out.kind = "return"
    /\ \A i \in 1..Len(out.val) : ~IsError(out.val[i])
    /\ SyncBegin(top.drive_parent_id, top.mode, top.filters, FALSE)

\* `for p in ...: if p.is_dir(): continue`
SyncSkipDir ==
    /\ pc = "sync_loop"
    /\ s.todo # <<>>
    /\ Head(s.todo) \notin fs.files
    /\ s' = [todo |-> Tail(s.todo), p |-> Head(s.todo)]
    /\ UNCHANGED <<remote, nextId, fs, pc, top, out, calls, remote0, ncalls, prev, results,
                   u, matches, r, retryVars, failures>>

\* `if filters and not filters(p): continue`
SyncSkipFiltered ==
    /\ pc = "sync_loop"
    /\ s.todo # <<>>
    /\ Head(s.todo) \in fs.files
    /\ Excluded(top.filters, Head(s.todo))
    /\ s' = [todo |-> Tail(s.todo), p |-> Head(s.todo)]
    /\ UNCHANGED <<remote, nextId, fs, pc, top, out, calls, remote0, ncalls, prev, results,
                   u, matches, r, retryVars, failures>>

\* `if mode == "upsert": res = upsert_file_by_path(service, str(p), drive_parent_id=..., dry_run=...)`
SyncUpsert ==
    /\ pc = "sync_loop"
    /\ s.todo # <<>>
    /\ Head(s.todo) \in fs.files
    /\ ~Excluded(top.filters, Head(s.todo))
    /\ ModeIsUpsert(top.mode)
    /\ s' = [todo |-> Tail(s.todo), p |-> Head(s.todo)]
    /\ UpsertEnter(calls, Head(s.todo), top.drive_parent_id, DefaultConflictPolicy,
                   top.dry_run, "sync")
    /\ UNCHANGED <<remote, nextId, fs, top, out, remote0, ncalls, prev, results, failures>>

\* `else: _log_event("warning", "sync_folder:unknown_mode", ...)`
SyncUnknownMode ==
    /\ pc = "sync_loop"
    /\ s.todo # <<>>
    /\ Head(s.todo) \in fs.files
    /\ ~Excluded(top.filters, Head(s.todo))
    /\ ~ModeIsUpsert(top.mode)
    /\ s' = [todo |-> Tail(s.todo), p |-> Head(s.todo)]
    /\ UNCHANGED <<remote, nextId, fs, pc, top, out, calls, remote0, ncalls, prev, results,
                   u, matches, r, retryVars, failures>>

\* `return results`
SyncReturn ==
    /\ pc = "sync_loop"
    /\ s.todo = <<>>
    /\ out' = Returned(results)
    /\ pc' = "done"
    /\ UNCHANGED <<remote, nextId, fs, top, calls, remote0, ncalls, prev, s, results,
                   u, matches, r, retryVars, failures>>

-----------------------------------------------------------------------------
(* Top-level calls of upsert_file_by_path and of a decorated function. *)

UpsertBegin(local_path, drive_parent_id, conflict_policy, dry_run) ==
    /\ top' = [fn |-> "upsert_file_by_path", local_path |-> local_path,
               drive_parent_id |-> drive_parent_id, conflict_policy |-> conflict_policy,
               dry_run |-> dry_run]
    /\ out' = Pending
    /\ failures' = {}
    /\ remote0' = remote
    /\ ncalls' = ncalls + 1
    /\ prev' = Previous
    /\ UpsertEnter(<<>>, local_path, drive_parent_id, conflict_policy, dry_run, "top")
    /\ UNCHANGED <<remote, nextId, fs, s, results>>

\* The local paths upsert_file_by_path is called with directly.
UpsertPaths == {<<"b">>, <<"a.txt">>}

CallUpsert(local_path, drive_parent_id, conflict_policy, dry_run) ==
    /\ pc = "idle"
    /\ UpsertBegin(local_path, drive_parent_id, conflict_policy, dry_run)

\* The same file, parent and policy again, once the previous call is over.
RepeatUpsert(dry_run) ==
    /\ pc = "done"
    /\ top.fn = "upsert_file_by_path"
    /\ ncalls < MaxCalls
    /\ UpsertBegin(top.local_path, top.drive_parent_id, top.conflict_policy, dry_run)

\* The decorated operations that read a local file, and the ids update_file is given.
Transfers == {"upload_file", "update_file"}
FileIds == {1, 2}

\* upload_file(service, local_path, parent_id) or update_file(service, file_id, local_path)
\* is called directly.
CallTransfer(fn, local_path, parent_id, file_id) ==
    /\ pc = "idle"
    /\ top' = [fn |-> fn, local_path |-> local_path, drive_parent_id |-> parent_id,
               file_id |-> file_id]
    /\ out' = Pending
    /\ failures' = {}
    /\ remote0' = remote
    /\ ncalls' = ncalls + 1
    /\ prev' = Previous
    /\ EnterWrapper(<<>>, fn, Args("", parent_id, local_path, file_id), DefaultParams, "top")
    /\ UNCHANGED <<remote, nextId, fs, s, results, u, matches>>

\* The parameters retry_on_transient is given when it decorates `fn`.
RetryParams ==
    [max_attempts : (-1..MaxAttemptsBound) \cup {DefaultParams.max_attempts},
     initial_backoff : {<<n, 1>> : n \in 0..MaxBackoffUnits},
     multiplier : {<<1, 2>>, <<1, 1>>, <<2, 1>>},
     max_backoff : {<<n, 1>> : n \in 0..MaxBackoffUnits},
     jitter : BOOLEAN]

CallWrapped(params) ==
    /\ pc = "idle"
    /\ top' = [fn |-> "fn", params |-> params]
    /\ out' = Pending
    /\ failures' = {}
    /\ remote0' = remote
    /\ ncalls' = ncalls + 1
    /\ prev' = Previous
    /\ EnterWrapper(<<>>, "fn", Args("", "", <<>>, 0), params, "top")
    /\ UNCHANGED <<remote, nextId, fs, s, results, u, matches>>

-----------------------------------------------------------------------------
(* Initial states and specifications. *)

InitialStores ==
    {<<>>,
     <<Obj(1, "b", {"P"}, <<>>)>>,
     <<Obj(1, "b", {"P"}, <<>>), Obj(2, "b", {"P"}, <<>>)>>,
     <<Obj(1, "b", {"Q"}, <<>>), Obj(2, "a.txt", {"P"}, <<>>)>>}

Trees == {[root |-> "dir", files |-> F] : F \in {G \in SUBSET LocalPaths : Cardinality(G) <= MaxFiles}}

NoTree == {[root |-> k, files |-> {}] : k \in {"missing", "file"}}

InitFrames ==
    /\ pc = "idle"
    /\ top = [fn |-> ""]
    /\ out = Pending
    /\ calls = <<>>
    /\ remote0 = remote
    /\ ncalls = 0
    /\ prev = [kind |-> "pending", val |-> <<>>, exc |-> NoExc, remote0 |-> <<>>,
               dry_run |-> FALSE]
    /\ s = NoS
    /\ results = <<>>
    /\ u = NoU
    /\ matches = <<>>
    /\ r = NoR
    /\ attempt = 0
    /\ backoff = <<0, 1>>
    /\ last_exc = NoExc
    /\ fnCalls = 0
    /\ reqs = 0
    /\ sleeps = 0
    /\ lastSleep = NoSleep
    /\ fnFails = 0
    /\ fnRaised = NoExc
    /\ failures = {}

\* A function decorated with arbitrary parameters is called.
InitRetry ==
    /\ remote = <<>>
    /\ nextId = 1
    /\ fs = [root |-> "dir", files |-> {}]
    /\ InitFrames

NextRetry ==
    \/ \E params \in RetryParams : CallWrapped(params)
    \/ WrapperCallReturns
    \/ WrapperCallRaises
    \/ WrapperExhausted

SpecRetry == InitRetry /\ [][NextRetry]_vars

\* sync_folder, upsert_file_by_path, upload_file or update_file is called against a
\* Drive store, from a local tree or from a local_dir that is no directory.
InitDrive ==
    /\ remote \in InitialStores
    /\ nextId = Len(remote) + 1
    /\ fs \in Trees \cup NoTree
    /\ InitFrames

NextDrive ==
    \/ \E parent \in Parents, mode \in Modes, filters \in Filters, dry \in BOOLEAN :
          CallSyncFolder(parent, mode, filters, dry)
    \/ SyncForReal
    \/ SyncAgain
    \/ SyncSkipDir
    \/ SyncSkipFiltered
    \/ SyncUpsert
    \/ SyncUnknownMode
    \/ SyncReturn
    \/ \E p \in UpsertPaths, parent \in Parents, policy \in ConflictPolicies, dry \in BOOLEAN :
          CallUpsert(p, parent, policy, dry)
    \/ \E dry \in BOOLEAN : RepeatUpsert(dry)
    \/ \E p \in UpsertPaths, parent \in Parents : CallTransfer("upload_file", p, parent, 0)
    \/ \E p \in UpsertPaths, id \in FileIds : CallTransfer("update_file", p, "", id)
    \/ UpsertDecide
    \/ WrapperCallReturns
    \/ WrapperCallRaises
    \/ WrapperExhausted

SpecDrive == InitDrive /\ [][NextDrive]_vars

-----------------------------------------------------------------------------
(* Properties. *)

Fns(log) == [i \in 1..Len(log) |-> log[i].fn]

InUpsert == top.fn = "upsert_file_by_path"
InSync == top.fn = "sync_folder"
InWrapped == top.fn = "fn"

\* The matches the lookup of the top-level upsert finds in the store the call began with.
Matches0 == Query(remote0, BaseName(top.local_path), top.drive_parent_id)

\* C1. Dry-run purity: while and after upsert_file_by_path or sync_folder runs with
\* dry_run=True, under any conflict policy and any remote state, the only Drive
\* operation invoked is list_files and the store is the one the call began with.
DryRunPurity ==
    ((InUpsert \/ InSync) /\ top.dry_run) =>
        /\ \A i \in 1..Len(calls) : calls[i].fn = "list_files"
        /\ pc \in {"retry", "exhausted"} => r.fn = "list_files"
        /\ remote = remote0
        /\ nextId = Len(remote0) + 1

\* A dry-run sync of two files has returned, one reported as an update, one as a create.
DryRunPurityWitness ==
    /\ pc = "done" /\ InSync /\ top.dry_run /\ out.kind = "return"
    /\ Len(out.val) = 2 /\ Len(calls) = 2
    /\ \E i, j \in 1..2 :
          /\ ~IsError(out.val[i]) /\ out.val[i].result.action = "update"
          /\ ~IsError(out.val[j]) /\ out.val[j].result.action = "create"

\* The files sync_folder passes to upsert_file_by_path, in the order it visits them.
Considered == {p \in fs.files : ~top.filters.given \/ p \in top.filters.accept}
IsConsidered(p) == p \in Considered
TraversalOrder == SelectSeq(Sorted(RGlob(fs.files)), IsConsidered)
Range(q) == {q[i] : i \in 1..Len(q)}

\* C2. Partial-failure isolation: in mode 'upsert' on a local tree, sync_folder never
\* raises; every considered file already visited has exactly one entry, in visiting
\* order, an error entry exactly when its lookup or transfer raised; the files
\* after a failing one are still visited and the pass never stops short of its
\* return, so it returns one entry per file.
PartialFailureIsolation ==
    (InSync /\ top.mode = "upsert" /\ IsDir(fs)) =>
        LET order == TraversalOrder
            N == Len(order)
            entries == IF pc = "done" THEN out.val ELSE results
            left == Cardinality(Considered \cap Range(s.todo))
        IN /\ out.kind # "raise"
           /\ pc = "done" => out.kind = "return" /\ Len(entries) = N
           /\ pc = "sync_loop" => Len(entries) + left = N
           /\ pc \in {"retry", "exhausted", "upsert"} => Len(entries) + left + 1 = N
           /\ Len(entries) <= N
           /\ \A i \in 1..Len(entries) :
                 /\ entries[i].path = PathStr(order[i])
                 /\ IsError(entries[i]) <=> order[i] \in failures
                 /\ ~IsError(entries[i]) <=> "result" \in DOMAIN entries[i]
           /\ failures \subseteq Range(order)
           /\ pc # "done" => ENABLED NextDrive

\* A real pass over two files has returned: the first file failed, the second was reconciled.
PartialFailureWitness ==
    /\ pc = "done" /\ InSync /\ top.mode = "upsert" /\ ~top.dry_run /\ out.kind = "return"
    /\ Len(out.val) = 2
    /\ IsError(out.val[1])
    /\ ~IsError(out.val[2])
    /\ Len(remote) = Len(remote0) + 1

RetryStopsAtSuccess ==
    InWrapped =>
        LET k == r.params.max_attempts IN
        /\ out.kind = "return" =>
              /\ pc = "done"
              /\ out.val = [call |-> fnCalls]
              /\ fnCalls = fnFails + 1
              /\ fnCalls <= k
        /\ out.kind # "return" => fnCalls = fnFails
        /\ (out.kind = "raise" \/ pc = "exhausted") => fnFails >= k

\* Three failures, then success, with max_attempts = 6: four attempts.
RetryStopsAtSuccessWitness ==
    /\ InWrapped /\ r.params.max_attempts = 6
    /\ out.kind = "return" /\ out.val = [call |-> 4]
    /\ fnFails = 3 /\ attempt = 4

\* What the decision table prescribes for the top-level upsert, given the store it began with.
ExpectedCalls ==
    IF Matches0 = <<>> THEN <<"list_files", "upload_file">>
    ELSE IF top.conflict_policy = "skip" THEN <<"list_files">>
    ELSE IF top.conflict_policy = "new" THEN <<"list_files", "upload_file">>
    ELSE <<"list_files", "update_file">>

\* C5. Upsert decision table: a upsert_file_by_path with dry_run=False invokes the
\* name lookup first and then only the operation the table prescribes (upload on no
\* match and on a match under 'new', update of the first match under 'overwrite',
\* nothing under 'skip'); when it returns, it has invoked exactly those, each once,
\* and the store has changed accordingly.
UpsertDecisionTable ==
    (InUpsert /\ ~top.dry_run) =>
        LET fns == Fns(calls)
            want == ExpectedCalls
        IN /\ Len(fns) <= Len(want)
           /\ \A i \in 1..Len(fns) : fns[i] = want[i]
           /\ out.kind = "return" =>
                 /\ fns = want
                 /\ calls[1].args.name = BaseName(top.local_path)
                 /\ calls[1].args.parent_id = top.drive_parent_id
                 /\ want = <<"list_files">> => remote = remote0
                 /\ want = <<"list_files", "upload_file">> =>
                       /\ calls[2].args.path = top.local_path
                       /\ calls[2].args.parent_id = top.drive_parent_id
                       /\ Len(remote) = Len(remote0) + 1
                       /\ SubSeq(remote, 1, Len(remote0)) = remote0
                       /\ remote[Len(remote)].name = BaseName(top.local_path)
                       /\ remote[Len(remote)].parents =
                             (IF top.drive_parent_id = "" THEN {} ELSE {top.drive_parent_id})
                       /\ ~HasId(remote0, remote[Len(remote)].id)
                 /\ want = <<"list_files", "update_file">> =>
                       /\ calls[2].args.path = top.local_path
                       /\ calls[2].args.file_id = Matches0[1].id
                       /\ Len(remote) = Len(remote0)
                       /\ \A i \in 1..Len(remote) :
                             IF remote0[i].id = Matches0[1].id
                             THEN remote[i] = [remote0[i] EXCEPT !.content = top.local_path]
                             ELSE remote[i] = remote0[i]

\* Under policy 'new' a file with two remote matches has been uploaded as a third object.
UpsertDecisionTableWitness ==
    /\ InUpsert /\ ~top.dry_run /\ top.conflict_policy = "new"
    /\ out.kind = "return"
    /\ Len(Matches0) = 2
    /\ Len(remote) = Len(remote0) + 1
    /\ Fns(calls) = <<"list_files", "upload_file">>

\* The label the claim gives the result of the top-level upsert.
ExpectedLabel ==
    IF Matches0 = <<>> THEN (IF top.dry_run THEN "dry_run_create" ELSE "create")
    ELSE IF top.conflict_policy = "skip" THEN "skip"
    ELSE IF top.conflict_policy = "new" THEN (IF top.dry_run THEN "dry_run_create_new" ELSE "create_new")
    ELSE (IF top.dry_run THEN "dry_run_update" ELSE "update")

\* C6. Result labelling: every result upsert_file_by_path returns carries an action
\* label: dry_run_create / dry_run_update / dry_run_create_new in a dry run, create /
\* update / create_new in a real run, skip under policy 'skip' in both.
ResultLabelling ==
    (InUpsert /\ out.kind = "return") =>
        /\ "action" \in DOMAIN out.val
        /\ out.val.action = ExpectedLabel

\* The action a real pass performed for each file, read off the operations it invoked.
Performed ==
    LET IsTransfer(c) == c.fn # "list_files"
        xfers == SelectSeq(calls, IsTransfer)
    IN [i \in 1..Len(xfers) |-> IF xfers[i].fn = "upload_file" THEN "create" ELSE "update"]

\* The action a dry-run pass reported for each file.
Reported(entries) == [i \in 1..Len(entries) |-> entries[i].result.action]

\* C7. Exact-semantics dry run: when a dry-run pass is followed by the real pass over
\* the same tree and the same store, and no file of the real pass fails, the actions
\* the dry run reported are, file by file, the actions the real pass performed.
ExactDryRun ==
    (/\ InSync /\ ~top.dry_run /\ ncalls = 2 /\ pc = "done"
     /\ out.kind = "return" /\ prev.kind = "return" /\ prev.dry_run /\ prev.remote0 = remote0
     /\ \A i \in 1..Len(out.val) : ~IsError(out.val[i])) =>
        /\ Len(prev.val) = Len(out.val)
        /\ \A i \in 1..Len(out.val) : prev.val[i].path = out.val[i].path
        /\ Reported(prev.val) = Performed

\* C8. Idempotent skip: under policy 'skip', when the store holds a match for the
\* file's name and parent, a upsert_file_by_path, dry run or not, invokes nothing but
\* the lookup, leaves the store as it was, and returns {action: skip, file_id: id of
\* the first match}; when the call before it found a match too, it returns what that
\* call returned.
IdempotentSkip ==
    (InUpsert /\ top.conflict_policy = "skip" /\ Matches0 # <<>>) =>
        /\ remote = remote0
        /\ Fns(calls) = <<"list_files">>
        /\ out.kind = "return" => out.val = [action |-> "skip", file_id |-> Matches0[1].id]
        /\ (/\ out.kind = "return" /\ prev.kind = "return"
            /\ Query(prev.remote0, BaseName(top.local_path), top.drive_parent_id) # <<>>) =>
              out.val = prev.val

\* The second of two skip calls, a real one after a dry one, has returned as the first did.
IdempotentSkipWitness ==
    /\ InUpsert /\ top.conflict_policy = "skip" /\ ~top.dry_run
    /\ ncalls = 2
    /\ Len(Matches0) = 2
    /\ out.kind = "return" /\ prev.kind = "return"
    /\ prev.remote0 = remote0
    /\ out.val.action = "skip" /\ out.val.file_id = 1

\* min(initial_backoff * multiplier^(n-1), max_backoff)
BackoffFormula(p, n) == RMin(RMul(p.initial_backoff, RPow(p.multiplier, n - 1)), p.max_backoff)

\* C9. Backoff growth: the backoff in force, before jitter, for the sleep that follows
\* failed attempt n is min(initial_backoff * multiplier^(n-1), max_backoff), for every
\* initial_backoff, multiplier and max_backoff.
BackoffGrowth ==
    (InWrapped /\ sleeps >= 1) =>
        REq(lastSleep.backoff, BackoffFormula(r.params, lastSleep.after))

\* C9 as amended: the n-th sleep follows failed attempt n; when initial_backoff <=
\* max_backoff the backoff in force for it is min(initial_backoff * multiplier^(n-1),
\* max_backoff); for n = 1 it is initial_backoff itself, capped or not.
BackoffGrowthWithinCap ==
    (InWrapped /\ sleeps >= 1) =>
        /\ lastSleep.after = sleeps
        /\ RLeq(r.params.initial_backoff, r.params.max_backoff) =>
              REq(lastSleep.backoff, BackoffFormula(r.params, lastSleep.after))
        /\ lastSleep.after = 1 => lastSleep.backoff = r.params.initial_backoff

\* The third sleep of a wrapper whose backoff 1, 2, 4 has reached the cap of 2.
BackoffGrowthWitness ==
    /\ InWrapped /\ sleeps = 3 /\ lastSleep.after = 3
    /\ r.params.initial_backoff = <<1, 1>> /\ r.params.multiplier = <<2, 1>>
    /\ r.params.max_backoff = <<2, 1>>
    /\ REq(lastSleep.backoff, <<2, 1>>)

\* C10. Missing sync root: when local_dir is missing or is not a directory, sync_folder
\* raises DriveAPIError at once: nothing is enumerated, no Drive operation is
\* invoked, no wrapper is entered (nothing is retried), and no result sequence exists.
MissingSyncRoot ==
    (InSync /\ ~IsDir(fs)) =>
        /\ pc = "done"
        /\ out = Raised(Exc("DriveAPIError", "Local dir not found"))
        /\ calls = <<>>
        /\ s = NoS
        /\ results = <<>>
        /\ r = NoR /\ fnCalls = 0 /\ sleeps = 0 /\ reqs = 0
        /\ remote = remote0

\* sync_folder has been called on a local_dir that is a regular file, and has raised.
MissingSyncRootWitness ==
    /\ InSync /\ fs.root = "file"
    /\ pc = "done" /\ out.kind = "raise"
    /\ remote # <<>>

-----------------------------------------------------------------------------
(* Local preconditions of upload_file and update_file. *)

InTransfer == top.fn \in Transfers

\* C11. Precondition failures are never retried: when upload_file or update_file is
\* given a local path that does not exist, its body runs exactly once and the wrapper
\* never sleeps.
PreconditionNeverRetried ==
    (pc # "idle" /\ r.fn \in Transfers /\ r.args.path \notin fs.files) =>
        /\ fnCalls <= 1
        /\ sleeps = 0

\* C12. A missing local file makes no remote call: while and after upload_file or
\* update_file runs with a local path that does not exist, no attempt has executed a
\* Drive request and the store is the one the call began with; the call ends in an error.
MissingLocalFileNoRemoteCall ==
    (pc # "idle" /\ r.fn \in Transfers /\ r.args.path \notin fs.files) =>
        /\ reqs = 0
        /\ remote = remote0
        /\ nextId = Len(remote0) + 1
        /\ out.kind # "return"
        /\ fnCalls > 0 => fnRaised = LocalFileNotFound

\* update_file, given the id of an existing object and a missing local path, has raised.
MissingLocalFileWitness ==
    /\ pc = "done" /\ InTransfer /\ r.fn = "update_file"
    /\ r.args.path \notin fs.files
    /\ HasId(remote, r.args.file_id)
    /\ fnCalls > 0
    /\ out.kind = "raise"

-----------------------------------------------------------------------------
(* The order and the content of sync_folder's result list. *)

\* The entries recorded so far, or returned
Entries == IF pc = "done" THEN out.val ELSE results

\* C13, as stated. Result order: in mode 'upsert' the entries of the result list appear
\* in lexicographic order of the files' path strings.
ResultOrderByString ==
    (InSync /\ top.mode = "upsert" /\ IsDir(fs)) =>
        \A i, j \in 1..Len(Entries) :
            i < j => StrLess(Entries[i].path, Entries[j].path)

\* C13, amended. Result order: in mode 'upsert' every entry is the path string of a
\* considered file, the entries ascend in the order of the paths compared part by part
\* (Path.__lt__), and a pass that has returned has an entry for every considered file,
\* so the order is fixed by the tree and the filter, whichever files fail.
ResultOrderByParts ==
    (InSync /\ top.mode = "upsert" /\ IsDir(fs)) =>
        /\ \A i \in 1..Len(Entries) : \E p \in Considered : Entries[i].path = PathStr(p)
        /\ \A i, j \in 1..Len(Entries) :
              i < j => \E p, q \in Considered :
                          /\ Entries[i].path = PathStr(p)
                          /\ Entries[j].path = PathStr(q)
                          /\ PathLess(p, q)
        /\ pc = "done" =>
              \A p \in Considered : \E i \in 1..Len(Entries) : Entries[i].path = PathStr(p)

\* A real pass over a/b and a.txt has returned: a/b, which failed, comes first although
\* the string "d/a.txt" is less than "d/a/b".
ResultOrderWitness ==
    /\ pc = "done" /\ InSync /\ top.mode = "upsert" /\ ~top.dry_run /\ out.kind = "return"
    /\ Len(out.val) = 2
    /\ out.val[1].path = PathStr(<<"a", "b">>)
    /\ out.val[2].path = PathStr(<<"a.txt">>)
    /\ StrLess(out.val[2].path, out.val[1].path)
    /\ IsError(out.val[1]) /\ ~IsError(out.val[2])

\* The decorated function is running, or upsert_file_by_path is between two of them.
InsideUpsert == pc \in {"retry", "exhausted", "upsert"}

Lookups == SelectSeq(calls, LAMBDA c : c.fn = "list_files")

\* C14. Filter exclusion: in a sync pass a file the filter rejects and a directory are
\* never handed to upsert_file_by_path: every lookup and every transfer is for a
\* considered file, there is one lookup per file handed over and no more, and no
\* entry of the result list names a rejected file or a directory.
FilterExclusion ==
    (InSync /\ IsDir(fs)) =>
        /\ InsideUpsert => u.path \in fs.files /\ u.path \in Considered
        /\ \A i \in 1..Len(calls) :
              IF calls[i].fn = "list_files"
              THEN /\ \E p \in Considered : calls[i].args.name = BaseName(p)
                   /\ calls[i].args.parent_id = top.drive_parent_id
              ELSE calls[i].args.path \in Considered
        /\ Len(Lookups) = Len(Entries) + (IF InsideUpsert THEN 1 ELSE 0)
        /\ \A p \in RGlob(fs.files) \ Considered :
              \A i \in 1..Len(Entries) : Entries[i].path # PathStr(p)
        /\ Considered = {} => calls = <<>> /\ remote = remote0

\* A real pass over directory a, a/b and a.txt with a filter that accepts only the files
\* named b has returned: one lookup, one upload, one entry.
FilterExclusionWitness ==
    /\ pc = "done" /\ InSync /\ top.mode = "upsert" /\ ~top.dry_run /\ out.kind = "return"
    /\ top.filters.given
    /\ fs.files = {<<"a", "b">>, <<"a.txt">>}
    /\ Len(out.val) = 1
    /\ Fns(calls) = <<"list_files", "upload_file">>
    /\ Len(remote) = Len(remote0) + 1

-----------------------------------------------------------------------------
(* Which remote object upsert_file_by_path touches. *)

Updates == SelectSeq(calls, LAMBDA c : c.fn = "update_file")

UnknownModeDoesNothing ==
    (InSync /\ top.mode # "upsert" /\ IsDir(fs)) =>
        /\ pc \in {"sync_loop", "done"}
        /\ calls = <<>>
        /\ results = <<>>
        /\ remote = remote0
        /\ out.kind # "raise"
        /\ pc = "done" => out = Returned(<<>>)

\* A real pass in mode 'mirror' over two files that pass the filter has returned.
UnknownModeWitness ==
    /\ pc = "done" /\ InSync /\ top.mode = "mirror" /\ ~top.dry_run
    /\ Cardinality(Considered) = 2
    /\ out = Returned(<<>>)

-----------------------------------------------------------------------------
(* The sleeps of the retry wrapper. *)

\* C17. Sleeps between attempts: with max_attempts = k >= 1 and a function that has
\* failed on every call so far, the wrapper has slept once after each failed attempt
\* but the k-th, so k - 1 times when it raises; each sleep follows the attempt of its
\* number and precedes the next; its duration is at most min(backoff, max_backoff)
\* for the backoff then in force, and exactly that without jitter; with k = 2 the one
\* sleep, which is all the wrapper sleeps, is at most initial_backoff.
SleepsBetweenAttempts ==
    (InWrapped /\ r.params.max_attempts >= 1 /\ fnFails = fnCalls) =>
        LET k == r.params.max_attempts
            cap == RMin(lastSleep.backoff, r.params.max_backoff)
        IN /\ sleeps = IF fnCalls < k THEN fnCalls ELSE k - 1
           /\ pc = "done" => fnCalls = k /\ sleeps = k - 1
           /\ sleeps > 0 =>
                 /\ lastSleep.after = sleeps
                 /\ lastSleep.after < k
                 /\ RLeq(<<0, 1>>, lastSleep.slept)
                 /\ RLeq(lastSleep.slept, cap)
                 /\ ~r.params.jitter => REq(lastSleep.slept, cap)
           /\ (k = 2 /\ sleeps > 0) =>
                 /\ sleeps = 1
                 /\ RLeq(lastSleep.slept, r.params.initial_backoff)

\* Three attempts have failed and the wrapper has raised after two sleeps, of one
\* unit and of two.
SleepsBetweenAttemptsWitness ==
    /\ InWrapped /\ r.params.max_attempts = 3 /\ ~r.params.jitter
    /\ pc = "done" /\ out.kind = "raise"
    /\ fnCalls = 3 /\ fnFails = 3 /\ sleeps = 2
    /\ lastSleep.after = 2
    /\ REq(r.params.initial_backoff, <<1, 1>>)
    /\ REq(lastSleep.slept, <<2, 1>>)

-----------------------------------------------------------------------------
(* Failures inside upsert_file_by_path. *)

\* C18. Upsert failure propagation: a top-level upsert_file_by_path whose lookup or
\* transfer has failed on every attempt raises the wrapper's own error for that
\* operation and never returns a value; after a failed lookup neither upload_file nor
\* update_file has been called and the store is as it was; a call that returns has
\* had no failing operation.
UpsertFailurePropagation ==
    InUpsert =>
        LET k == DefaultParams.max_attempts IN
        /\ (pc = "done" /\ fnCalls > 0 /\ fnFails = fnCalls) => out.kind = "raise"
        /\ failures # {} => pc = "done" /\ out.kind = "raise"
        /\ out.kind = "raise" =>
              /\ pc = "done"
              /\ fnCalls = k /\ fnFails = k
              /\ out.exc = RetryExhausted(r.fn, k, fnRaised)
              /\ r.fn = calls[Len(calls)].fn
              /\ r.fn = "list_files" => Fns(calls) = <<"list_files">> /\ remote = remote0
              /\ r.fn \in Transfers => Len(calls) = 2 /\ calls[1].fn = "list_files"
        /\ out.kind = "return" => failures = {} /\ fnFails < fnCalls

\* The lookup of a real upsert of an existing local file has failed six times: the
\* call has raised after the one list_files call.
UpsertFailureWitness ==
    /\ pc = "done" /\ InUpsert /\ ~top.dry_run /\ top.local_path \in fs.files
    /\ out.kind = "raise" /\ out.exc.fn = "list_files" /\ out.exc.attempts = 6
    /\ Fns(calls) = <<"list_files">>
    /\ remote = remote0

-----------------------------------------------------------------------------
(* Files of one pass that share a base name. *)

XferCalls == SelectSeq(calls, LAMBDA c : c.fn # "list_files")

\* The base names of the considered files, and the objects the pass has added.
ConsideredNames == {BaseName(p) : p \in Considered}
Added == {i \in 1..Len(remote) : i > Len(remote0)}

\* C19. Fresh lookup and flat destination: in a real 'upsert' pass that has returned
\* with no failure, every lookup and every upload names the target parent; a file whose
\* base name an earlier file of the pass had was not uploaded: update_file was called
\* for it, on an object of that name. When the store held no match for any of the base
\* names at the start, the pass has added exactly one object per distinct base name,
\* directly under the target parent, holding the last file of that name, and has left
\* the objects that were there untouched.
FreshLookupFlatDestination ==
    (InSync /\ top.mode = "upsert" /\ ~top.dry_run /\ IsDir(fs) /\ pc = "done" /\ failures = {}) =>
        LET order == TraversalOrder
            parent == top.drive_parent_id
            Earlier(i) == {j \in 1..(i - 1) : BaseName(order[j]) = BaseName(order[i])}
            Later(i) == {j \in (i + 1)..Len(order) : BaseName(order[j]) = BaseName(order[i])}
            fresh == \A n \in ConsideredNames : Query(remote0, n, parent) = <<>>
        IN /\ \A i \in 1..Len(calls) :
                 calls[i].fn \in {"list_files", "upload_file"} => calls[i].args.parent_id = parent
           /\ Len(XferCalls) = Len(order)
           /\ \A i \in 1..Len(order) :
                 /\ XferCalls[i].args.path = order[i]
                 /\ Earlier(i) # {} =>
                       /\ XferCalls[i].fn = "update_file"
                       /\ \E k \in 1..Len(remote) :
                             /\ remote[k].id = XferCalls[i].args.file_id
                             /\ remote[k].name = BaseName(order[i])
                             /\ fresh => k \in Added
                 /\ (fresh /\ Earlier(i) = {}) => XferCalls[i].fn = "upload_file"
           /\ fresh =>
                 /\ SubSeq(remote, 1, Len(remote0)) = remote0
                 /\ Cardinality(Added) = Cardinality(ConsideredNames)
                 /\ \A n \in ConsideredNames :
                       Cardinality({k \in Added : remote[k].name = n}) = 1
                 /\ \A k \in Added :
                       /\ remote[k].parents = IF parent = "" THEN {} ELSE {parent}
                       /\ \E i \in 1..Len(order) :
                             /\ Later(i) = {}
                             /\ remote[k].name = BaseName(order[i])
                             /\ remote[k].content = order[i]

\* A real pass over a/b and b against a store with no object named b under the parent
\* has returned: b was uploaded for a/b and updated for b, and one object was added.
FreshLookupWitness ==
    /\ pc = "done" /\ InSync /\ top.mode = "upsert" /\ ~top.dry_run /\ out.kind = "return"
    /\ failures = {}
    /\ fs.files = {<<"a", "b">>, <<"b">>}
    /\ ~top.filters.given
    /\ Fns(calls) = <<"list_files", "upload_file", "list_files", "update_file">>
    /\ Len(remote) = Len(remote0) + 1
    /\ remote[Len(remote)].content = <<"b">>

-----------------------------------------------------------------------------
(* The conflict policy of a sync pass. *)

\* C20. One policy per pass: in an 'upsert' pass every file is handed to
\* upsert_file_by_path under policy 'overwrite'. upload_file runs only for a file with
\* no match in the store, update_file only in a real pass and on the first match; no
\* entry reports 'skip' or 'create_new'; a dry run reports 'update' exactly for the
\* files with a match; and a name that had matches under the parent when the pass
\* began never gains another object.
OnePolicyPerPass ==
    (InSync /\ top.mode = "upsert" /\ IsDir(fs)) =>
        LET parent == top.drive_parent_id IN
        /\ InsideUpsert => u.policy = "overwrite" /\ u.parent_id = parent
        /\ (pc \in {"retry", "exhausted"} /\ r.fn = "upload_file") =>
              /\ ~top.dry_run
              /\ Query(remote, u.name, parent) = <<>>
        /\ (pc \in {"retry", "exhausted"} /\ r.fn = "update_file") =>
              /\ ~top.dry_run
              /\ Query(remote, u.name, parent) # <<>>
              /\ r.args.file_id = Query(remote, u.name, parent)[1].id
        /\ \A i \in 1..Len(Entries) :
              (~IsError(Entries[i]) /\ "action" \in DOMAIN Entries[i].result) =>
                  /\ Entries[i].result.action \in {"create", "update"}
                  /\ \E p \in Considered :
                        /\ Entries[i].path = PathStr(p)
                        /\ Entries[i].result.action = "update" <=>
                              Query(remote0, BaseName(p), parent) # <<>>
        /\ \A n \in ConsideredNames :
              Query(remote0, n, parent) # <<>> =>
                  Len(Query(remote, n, parent)) = Len(Query(remote0, n, parent))

\* A real pass to parent P, where two objects are named b, has returned after updating
\* the first of them for local file b: the store has changed but not grown.
OnePolicyWitness ==
    /\ pc = "done" /\ InSync /\ top.mode = "upsert" /\ ~top.dry_run /\ out.kind = "return"
    /\ top.drive_parent_id = "P"
    /\ Len(Query(remote0, "b", "P")) = 2
    /\ Fns(calls) = <<"list_files", "update_file">>
    /\ calls[2].args.file_id = Query(remote0, "b", "P")[1].id
    /\ Len(remote) = Len(remote0)
    /\ remote # remote0

-----------------------------------------------------------------------------
(* A real pass repeated. *)

Ids(store) == {store[i].id : i \in 1..Len(store)}

\* The call before this one was a real sync pass that returned without an error entry.
AfterCleanRealPass ==
    /\ ncalls >= 2
    /\ prev.kind = "return" /\ ~prev.dry_run
    /\ \A i \in 1..Len(prev.val) : ~IsError(prev.val[i])

\* C21. Sync is idempotent on the remote object set: in a real 'upsert' pass that
\* follows a real pass of the same tree, filter and parent which reported no error,
\* upload_file is never called, every lookup finds a match, update_file is only given
\* ids of objects the first pass left, and the ids of the store stay those the first
\* pass left; a second pass without failure has updated once per considered file.
SyncIdempotent ==
    (InSync /\ top.mode = "upsert" /\ ~top.dry_run /\ IsDir(fs) /\ AfterCleanRealPass) =>
        /\ \A i \in 1..Len(calls) :
              /\ calls[i].fn # "upload_file"
              /\ calls[i].fn = "update_file" => calls[i].args.file_id \in Ids(remote0)
        /\ pc = "upsert" => matches # <<>>
        /\ Len(remote) = Len(remote0)
        /\ Ids(remote) = Ids(remote0)
        /\ nextId = Len(remote0) + 1
        /\ (pc = "done" /\ failures = {}) =>
              /\ Len(XferCalls) = Cardinality(Considered)
              /\ Len(out.val) = Cardinality(Considered)

\* The second real pass over a.txt and b has returned; the first began with an empty
\* store and uploaded both, the second updated both.
SyncIdempotentWitness ==
    /\ pc = "done" /\ InSync /\ top.mode = "upsert" /\ ~top.dry_run /\ out.kind = "return"
    /\ AfterCleanRealPass
    /\ prev.remote0 = <<>>
    /\ fs.files = {<<"a.txt">>, <<"b">>}
    /\ ~top.filters.given
    /\ failures = {}
    /\ Fns(calls) = <<"list_files", "update_file", "list_files", "update_file">>
    /\ Len(remote) = 2

-----------------------------------------------------------------------------
(* A wrapper with no attempt to spend. *)

\* C22. Zero attempt budget: with max_attempts <= 0 the wrapper never calls fn, never
\* sleeps and makes no Drive request; it does not return a value; it can only go on
\* to raise, and what it raises is DriveAPIError reporting 0 attempts with no cause.
ZeroAttemptBudget ==
    (InWrapped /\ r.params.max_attempts <= 0) =>
        /\ fnCalls = 0 /\ fnFails = 0 /\ attempt = 0
        /\ sleeps = 0 /\ lastSleep = NoSleep
        /\ reqs = 0
        /\ remote = remote0
        /\ last_exc = NoExc
        /\ out.kind # "return"
        /\ pc \in {"retry", "done"}
        /\ pc = "retry" => ENABLED WrapperExhausted /\ ~ENABLED WrapperCallReturns
                            /\ ~ENABLED WrapperCallRaises
        /\ pc = "done" =>
              /\ out.kind = "raise"
              /\ out.exc = RetryExhausted("fn", 0, NoExc)
              /\ out.exc.type = "DriveAPIError"
              /\ out.exc.attempts = 0
              /\ out.exc.cause = <<"None", "">>

\* A function decorated with max_attempts = 0 was called and the wrapper has raised.
ZeroAttemptBudgetWitness ==
    /\ InWrapped /\ r.params.max_attempts = 0
    /\ pc = "done" /\ out.kind = "raise"
    /\ out.exc.attempts = 0
    /\ fnCalls = 0

====
